---- MODULE Spec2Model ----
(***************************************************************************)
(* Customer Health API: the event store, the record-event endpoint, the    *)
(* scoring engine and the population analytics (backend/app/scoring.py,    *)
(* routers/events.py, routers/customers.py, routers/analytics.py).         *)
(*                                                                         *)
(* Numbers.  The code computes in floating point.  Scores are modelled as  *)
(* exact rationals [n, d] in lowest terms (d > 0), so that equalities and  *)
(* strict inequalities are decided exactly.  The only irrational quantity, *)
(* the invoice decay weight 0.5 ** (age_days / 60), is modelled in fixed   *)
(* point (WScale units per 1.0); the paid share of the weights is exact.   *)
(* Time is counted in whole days.                                          *)
(*                                                                         *)
(* Store.  Queries without ORDER BY return their rows in any order.  The   *)
(* session runs every query against what is committed when the query       *)
(* starts (db.py sets no isolation level).                                 *)
(*                                                                         *)
(* Customer.seats is read by scoring._get_ctx and routers/customers.py and *)
(* set by the tests and seed.py; it is modelled as an optional integer     *)
(* column of Customer.                                                     *)
(***************************************************************************)
EXTENDS Integers, Sequences, FiniteSets, TLC

VARIABLES customers, events, now, resp

vars == <<customers, events, now, resp>>

\* ------------------------------------------------------------------ bounds
MaxEvents == 2
MaxTicks == 1
MaxTickets == 11
T0 == 200

\* ------------------------------------------------------ optional values
None == <<>>

Some(x) == <<x>>

IsNone(o) == o = <<>>

Get(o) == o[1]

\* ------------------------------------------------------------ rationals
RECURSIVE GCD(_, _)
GCD(a, b) == IF b = 0 THEN a ELSE GCD(b, a % b)

Abs(x) == IF x < 0 THEN -x ELSE x

LCM(a, b) == (a \div GCD(a, b)) * b

Rat(n, d) ==
  LET s == IF d < 0 THEN -1 ELSE 1
      g == GCD(Abs(n), Abs(d))
  IN [n |-> (s * n) \div g, d |-> (s * d) \div g]

R(k) == [n |-> k, d |-> 1]

RAdd(a, b) ==
  LET l == LCM(a.d, b.d)
  IN Rat(a.n * (l \div a.d) + b.n * (l \div b.d), l)

RNeg(a) == [n |-> -a.n, d |-> a.d]

RSub(a, b) == RAdd(a, RNeg(b))

RMul(a, b) ==
  LET g1 == GCD(Abs(a.n), b.d)
      g2 == GCD(Abs(b.n), a.d)
  IN Rat((a.n \div g1) * (b.n \div g2), (a.d \div g2) * (b.d \div g1))

RDiv(a, b) == RMul(a, Rat(b.d, b.n))

\* a/b < c/d for proper fractions (0 <= a < b, 0 <= c < d), decided by the
\* continued-fraction expansion so that no product is formed.
RECURSIVE FracLt(_, _, _, _)
FracLt(a, b, c, d) ==
  IF c = 0 THEN FALSE
  ELSE IF a = 0 THEN TRUE
  ELSE IF d \div c # b \div a THEN d \div c < b \div a
  ELSE FracLt(d % c, c, b % a, a)

RLt(a, b) ==
  LET fa == a.n \div a.d
      fb == b.n \div b.d
  IN \/ fa < fb
     \/ fa = fb /\ FracLt(a.n % a.d, a.d, b.n % b.d, b.d)

RLe(a, b) == ~RLt(b, a)

RMin(a, b) == IF RLt(b, a) THEN b ELSE a

RMax(a, b) == IF RLt(a, b) THEN b ELSE a

RECURSIVE RSum(_)
RSum(s) == IF s = <<>> THEN R(0) ELSE RAdd(Head(s), RSum(Tail(s)))

\* --------------------------------------------------------------- enums
Segments == {"enterprise", "smb", "startup"}

EventTypes == {"login", "feature_use", "api_call", "support_ticket_opened",
               "invoice_paid", "invoice_late"}

\* ------------------------------------------------------------- scoring
\* clamp without its upper limit
clamp_NoUpper(x) == RMax(R(0), x)

\* clamp without its lower limit
clamp_NoLower(x) == RMin(R(100), x)

clamp(x) == RMax(R(0), RMin(R(100), x))

SEGMENT_PARAMS ==
  [enterprise |-> [login_target_per_seat_30d |-> Rat(15, 100),
                   ticket_penalty_per_100_seats |-> R(10)],
   smb        |-> [login_target_per_seat_30d |-> Rat(8, 10),
                   ticket_penalty_per_100_seats |-> R(6)],
   startup    |-> [login_target_per_seat_30d |-> Rat(12, 10),
                   ticket_penalty_per_100_seats |-> R(6)]]

SegParams(seg) ==
  IF seg \in DOMAIN SEGMENT_PARAMS THEN SEGMENT_PARAMS[seg] ELSE SEGMENT_PARAMS["smb"]

CORE_FEATURES == 10

\* db.get(Customer, customer_id): the row or None
DbGet(cs, customer_id) ==
  IF customer_id \in DOMAIN cs THEN Some(cs[customer_id]) ELSE None

_get_ctx(cs, customer_id) ==
  LET c == DbGet(cs, customer_id)
  IN IF IsNone(c)
     THEN [seg |-> "smb", seats |-> 25]
     ELSE LET seats == IF IsNone(Get(c).seats) \/ Get(Get(c).seats) = 0
                       THEN 25 ELSE Get(Get(c).seats)
          IN [seg |-> Get(c).segment, seats |-> IF seats < 1 THEN 1 ELSE seats]

\* LoginScore multiplying by the seat count instead of dividing by it
LoginScore_TimesSeats(logins, seg, seats) ==
  LET per_seat == SegParams(seg).login_target_per_seat_30d
  IN clamp(RMul(RMul(RDiv(R(logins), per_seat), R(seats)), R(100)))

\* Score = (logins_30d / (target_per_seat * seats)) * 100, clamped.
LoginScore(logins, seg, seats) ==
  LET target0 == RMul(SegParams(seg).login_target_per_seat_30d, R(seats))
      target == IF RLe(target0, R(0)) THEN R(1) ELSE target0
  IN clamp(RMul(RDiv(R(logins), target), R(100)))

\* _login_frequency_score counting the events of every type
_login_frequency_score_AnyType(ev, customer_id, t, seg, seats) ==
  LET since == t - 30
      F(e) == e.customer_id = customer_id /\ e.ts >= since
      logins == Cardinality({i \in DOMAIN ev : F(ev[i])})
  IN LoginScore(logins, seg, seats)

_login_frequency_score(ev, customer_id, t, seg, seats) ==
  LET since == t - 30
      F(e) == e.customer_id = customer_id /\ e.type = "login" /\ e.ts >= since
      logins == Cardinality({i \in DOMAIN ev : F(ev[i])})
  IN LoginScore(logins, seg, seats)

FeatureScore(distinct) == clamp(RMul(Rat(distinct, CORE_FEATURES), R(100)))

\* _feature_adoption_score counting the rows without .distinct()
_feature_adoption_score_NoDistinct(ev, customer_id, t) ==
  LET since == t - 30
      F(e) == /\ e.customer_id = customer_id
              /\ e.type = "feature_use"
              /\ e.ts >= since
              /\ ~IsNone(e.feature_key)
  IN FeatureScore(Cardinality({j \in DOMAIN ev : F(ev[j])}))

_feature_adoption_score(ev, customer_id, t) ==
  LET since == t - 30
      F(e) == /\ e.customer_id = customer_id
              /\ e.type = "feature_use"
              /\ e.ts >= since
              /\ ~IsNone(e.feature_key)
      distinct == Cardinality({ev[i].feature_key : i \in {j \in DOMAIN ev : F(ev[j])}})
  IN FeatureScore(distinct)

\* TicketScore with the penalty added instead of subtracted
TicketScore_Plus(tickets, seg, seats) ==
  LET per_100 == RDiv(R(tickets), RMax(R(1), Rat(seats, 100)))
      penalty == SegParams(seg).ticket_penalty_per_100_seats
  IN clamp(RAdd(R(100), RMul(penalty, per_100)))

\* TicketScore multiplying by the seat factor instead of dividing by it
TicketScore_TimesSeats(tickets, seg, seats) ==
  LET per_100 == RMul(R(tickets), RMax(R(1), Rat(seats, 100)))
      penalty == SegParams(seg).ticket_penalty_per_100_seats
  IN clamp(RSub(R(100), RMul(penalty, per_100)))

\* Tickets normalized per 100 seats, then linear penalty by segment.
TicketScore(tickets, seg, seats) ==
  LET per_100 == RDiv(R(tickets), RMax(R(1), Rat(seats, 100)))
      penalty == SegParams(seg).ticket_penalty_per_100_seats
  IN clamp(RSub(R(100), RMul(penalty, per_100)))

_support_ticket_score(ev, customer_id, t, seg, seats) ==
  LET since == t - 30
      F(e) == /\ e.customer_id = customer_id
              /\ e.type = "support_ticket_opened"
              /\ e.ts >= since
      tickets == Cardinality({i \in DOMAIN ev : F(ev[i])})
  IN TicketScore(tickets, seg, seats)

\* 0.5 ** (age_days / 60.0) in fixed point: WScale units per 1.0.  DecayStep[i]
\* is 65536 * 0.5 ** (2^(i-1) / 60); the fractional exponent is applied bit by
\* bit, the whole exponent by halving (or doubling, for a negative age).
WScale == 16384

DecayStep == <<64783, 64039, 62576, 59751, 54476, 45283>>

RECURSIVE FracPow(_, _, _)
FracPow(x, r, i) ==
  IF r = 0 THEN x
  ELSE FracPow(IF r % 2 = 1 THEN (x * DecayStep[i]) \div 65536 ELSE x, r \div 2, i + 1)

\* w with the sign of the age reversed (older invoices count more)
w_Reversed(t, ts) ==
  LET age_days == ts - t
      q == age_days \div 60
      f == FracPow(WScale, age_days % 60, 1)
  IN IF q >= 0 THEN f \div (2 ^ q) ELSE f * (2 ^ (-q))

w(t, ts) ==
  LET age_days == t - ts
      q == age_days \div 60
      f == FracPow(WScale, age_days % 60, 1)
  IN IF q >= 0 THEN f \div (2 ^ q) ELSE f * (2 ^ (-q))

RECURSIVE SumSeq(_)
SumSeq(s) == IF s = <<>> THEN 0 ELSE Head(s) + SumSeq(Tail(s))

\* Score = 100 * (sum_paid_w / (sum_paid_w + sum_late_w)), neutral 50 if none.
InvoiceScore(n_rows, paid_w, late_w) ==
  LET total == paid_w + late_w
  IN IF n_rows = 0 THEN R(50)
     ELSE IF total <= 0 THEN R(50)
     ELSE clamp(RMul(R(100), Rat(paid_w, total)))

_invoice_timeliness_score(ev, customer_id, t) ==
  LET since == t - 180
      F(e) == /\ e.customer_id = customer_id
              /\ e.type \in {"invoice_paid", "invoice_late"}
              /\ e.ts >= since
      rows == {i \in DOMAIN ev : F(ev[i])}
      paid_w == SumSeq([i \in DOMAIN ev |->
                  IF i \in rows /\ ev[i].type = "invoice_paid" THEN w(t, ev[i].ts) ELSE 0])
      late_w == SumSeq([i \in DOMAIN ev |->
                  IF i \in rows /\ ev[i].type = "invoice_late" THEN w(t, ev[i].ts) ELSE 0])
  IN InvoiceScore(Cardinality(rows), paid_w, late_w)

\* ApiTrendScore scoring "no api calls at all" as 0 instead of the neutral 50
ApiTrendScore_NoNeutral(last, prev) ==
  IF prev = 0 /\ last = 0 THEN R(0)
  ELSE IF prev = 0 /\ last > 0 THEN R(100)
  ELSE IF prev > 0 /\ last = 0 THEN R(0)
  ELSE LET ratio == Rat(last, prev)
       IN IF RLe(R(1), ratio)
          THEN clamp(RAdd(R(50), RMin(R(50), RMul(RSub(ratio, R(1)), R(50)))))
          ELSE clamp(RMul(R(50), ratio))

\* ApiTrendScore dividing the previous sum by the recent one
ApiTrendScore_Inverted(last, prev) ==
  IF prev = 0 /\ last = 0 THEN R(50)
  ELSE IF prev = 0 /\ last > 0 THEN R(100)
  ELSE IF prev > 0 /\ last = 0 THEN R(0)
  ELSE LET ratio == Rat(prev, last)
       IN IF RLe(R(1), ratio)
          THEN clamp(RAdd(R(50), RMin(R(50), RMul(RSub(ratio, R(1)), R(50)))))
          ELSE clamp(RMul(R(50), ratio))

\* The mapping of the two 7-day sums to the trend score.
ApiTrendScore(last, prev) ==
  IF prev = 0 /\ last = 0 THEN R(50)
  ELSE IF prev = 0 /\ last > 0 THEN R(100)
  ELSE IF prev > 0 /\ last = 0 THEN R(0)
  ELSE LET ratio == Rat(last, prev)
       IN IF RLe(R(1), ratio)
          THEN clamp(RAdd(R(50), RMin(R(50), RMul(RSub(ratio, R(1)), R(50)))))
          ELSE clamp(RMul(R(50), ratio))

_api_usage_trend_score(ev, customer_id, t) ==
  LET last_7 == t - 7
      prev_14 == t - 14
      FL(e) == /\ e.customer_id = customer_id
               /\ e.type = "api_call"
               /\ e.ts >= last_7
               /\ ~IsNone(e.value)
      FP(e) == /\ e.customer_id = customer_id
               /\ e.type = "api_call"
               /\ e.ts < last_7
               /\ e.ts >= prev_14
               /\ ~IsNone(e.value)
      last == SumSeq([i \in DOMAIN ev |-> IF FL(ev[i]) THEN Get(ev[i].value) ELSE 0])
      prev == SumSeq([i \in DOMAIN ev |-> IF FP(ev[i]) THEN Get(ev[i].value) ELSE 0])
  IN ApiTrendScore(last, prev)

\* WEIGHTS with the weights of the last two factors shifted
WEIGHTS_Shifted ==
  [login_frequency       |-> Rat(25, 100),
   feature_adoption      |-> Rat(25, 100),
   support_ticket_volume |-> Rat(20, 100),
   invoice_timeliness    |-> Rat(20, 100),
   api_usage_trend       |-> Rat(10, 100)]

WEIGHTS ==
  [login_frequency       |-> Rat(25, 100),
   feature_adoption      |-> Rat(25, 100),
   support_ticket_volume |-> Rat(20, 100),
   invoice_timeliness    |-> Rat(15, 100),
   api_usage_trend       |-> Rat(15, 100)]

FactorOrder == <<"login_frequency", "feature_adoption", "support_ticket_volume",
                 "invoice_timeliness", "api_usage_trend">>

compute_health_breakdown(cs, ev, customer_id, t) ==
  LET ctx == _get_ctx(cs, customer_id)
      factors ==
        [login_frequency       |-> _login_frequency_score(ev, customer_id, t, ctx.seg, ctx.seats),
         feature_adoption      |-> _feature_adoption_score(ev, customer_id, t),
         support_ticket_volume |-> _support_ticket_score(ev, customer_id, t, ctx.seg, ctx.seats),
         invoice_timeliness    |-> _invoice_timeliness_score(ev, customer_id, t),
         api_usage_trend       |-> _api_usage_trend_score(ev, customer_id, t)]
      total == RSum([i \in 1..5 |-> RMul(WEIGHTS[FactorOrder[i]], factors[FactorOrder[i]])])
  IN [total |-> clamp(total), factors |-> factors]

\* ----------------------------------------------------------- the store
\* A Customer row (models.Customer); seats is None when the column is unset.
Customer(segment, seats) ==
  [name |-> "Edge", segment |-> segment, seats |-> seats, health_score |-> R(0)]

\* An Event row (models.Event); its id is its position in the table.
Event(customer_id, type, feature_key, value, ts) ==
  [customer_id |-> customer_id, type |-> type, feature_key |-> feature_key,
   value |-> value, ts |-> ts]

\* The request body of POST /api/customers/{id}/events (schemas.EventCreate).
EventCreate(type, feature_key, value, ts) ==
  [type |-> type, feature_key |-> feature_key, value |-> value, ts |-> ts]

NoBody == <<>>

\* What the caller sees: the operation, its arguments (cid, req), the instant
\* utcnow() returned while it was served (at), the HTTP status and the body.
Response(op, status, cid, req, at, body) ==
  [op |-> op, status |-> status, cid |-> cid, req |-> req, at |-> at, body |-> body]

\* ------------------------------------------------------- POST events
\* CrossFieldError without the sign check on the value of an api_call
CrossFieldError_NoSign(et, payload) ==
  IF et = "feature_use"
  THEN IF IsNone(payload.feature_key) \/ payload.feature_key = Some("")
       THEN Some("feature_key is required for type=feature_use")
       ELSE IF ~IsNone(payload.value)
       THEN Some("value must be null for type=feature_use")
       ELSE None
  ELSE IF et = "api_call"
  THEN IF IsNone(payload.value)
       THEN Some("value is required for type=api_call")
       ELSE IF ~IsNone(payload.feature_key)
       THEN Some("feature_key must be null for type=api_call")
       ELSE None
  ELSE IF ~IsNone(payload.feature_key)
       THEN Some("feature_key must be null for this event type")
       ELSE IF ~IsNone(payload.value)
       THEN Some("value must be null for this event type")
       ELSE None

\* CrossFieldError testing feature_key against None only (an empty key passes)
CrossFieldError_EmptyKey(et, payload) ==
  IF et = "feature_use"
  THEN IF IsNone(payload.feature_key)
       THEN Some("feature_key is required for type=feature_use")
       ELSE IF ~IsNone(payload.value)
       THEN Some("value must be null for type=feature_use")
       ELSE None
  ELSE IF et = "api_call"
  THEN IF IsNone(payload.value)
       THEN Some("value is required for type=api_call")
       ELSE IF Get(payload.value) < 0
       THEN Some("value must be >= 0 for type=api_call")
       ELSE IF ~IsNone(payload.feature_key)
       THEN Some("feature_key must be null for type=api_call")
       ELSE None
  ELSE IF ~IsNone(payload.feature_key)
       THEN Some("feature_key must be null for this event type")
       ELSE IF ~IsNone(payload.value)
       THEN Some("value must be null for this event type")
       ELSE None

\* The 422 detail of the cross-field validation, or None when the payload passes.
CrossFieldError(et, payload) ==
  IF et = "feature_use"
  THEN IF IsNone(payload.feature_key) \/ payload.feature_key = Some("")
       THEN Some("feature_key is required for type=feature_use")
       ELSE IF ~IsNone(payload.value)
       THEN Some("value must be null for type=feature_use")
       ELSE None
  ELSE IF et = "api_call"
  THEN IF IsNone(payload.value)
       THEN Some("value is required for type=api_call")
       ELSE IF Get(payload.value) < 0
       THEN Some("value must be >= 0 for type=api_call")
       ELSE IF ~IsNone(payload.feature_key)
       THEN Some("feature_key must be null for type=api_call")
       ELSE None
  ELSE IF ~IsNone(payload.feature_key)
       THEN Some("feature_key must be null for this event type")
       ELSE IF ~IsNone(payload.value)
       THEN Some("value must be null for this event type")
       ELSE None

\* create_event adding the row before the cross-field validation
create_event_AddFirst(customer_id, payload) ==
  LET customer == DbGet(customers, customer_id)
      err == CrossFieldError(payload.type, payload)
      ts == IF IsNone(payload.ts) THEN now ELSE Get(payload.ts)
      ev == Event(customer_id, payload.type, payload.feature_key, payload.value, ts)
  IN /\ UNCHANGED customers
     /\ IF payload.type \notin EventTypes
        THEN /\ resp' = Response("create_event", 422, customer_id, payload, now,
                                 Some("Invalid event type"))
             /\ UNCHANGED <<events, now>>
        ELSE IF IsNone(customer)
        THEN /\ resp' = Response("create_event", 404, customer_id, payload, now,
                                 Some("Customer not found"))
             /\ UNCHANGED <<events, now>>
        ELSE /\ events' = Append(events, ev)
             /\ now' = IF IsNone(payload.ts) THEN now + 1 ELSE now
             /\ IF ~IsNone(err)
                THEN resp' = Response("create_event", 422, customer_id, payload, now, err)
                ELSE resp' = Response("create_event", 201, customer_id, payload, now,
                                      Some([id |-> Len(events) + 1] @@ ev))

\* utcnow() is strictly increasing: a request that is served after an event
\* was stamped by the server sees a later instant.  The handler stamps the
\* event with utcnow() when the payload carries no ts, and the clock moves on.
create_event(customer_id, payload) ==
  LET customer == DbGet(customers, customer_id)
      err == CrossFieldError(payload.type, payload)
      ts == IF IsNone(payload.ts) THEN now ELSE Get(payload.ts)
      ev == Event(customer_id, payload.type, payload.feature_key, payload.value, ts)
  IN /\ UNCHANGED customers
     /\ IF payload.type \notin EventTypes
        THEN /\ resp' = Response("create_event", 422, customer_id, payload, now,
                                 Some("Invalid event type"))
             /\ UNCHANGED <<events, now>>
        ELSE IF IsNone(customer)
        THEN /\ resp' = Response("create_event", 404, customer_id, payload, now,
                                 Some("Customer not found"))
             /\ UNCHANGED <<events, now>>
        ELSE IF ~IsNone(err)
        THEN /\ resp' = Response("create_event", 422, customer_id, payload, now, err)
             /\ UNCHANGED <<events, now>>
        ELSE /\ events' = Append(events, ev)
             /\ now' = IF IsNone(payload.ts) THEN now + 1 ELSE now
             /\ resp' = Response("create_event", 201, customer_id, payload, now,
                                 Some([id |-> Len(events) + 1] @@ ev))

\* ------------------------------------------------ GET customers/{id}/health
\* get_customer_health without the existence check
get_customer_health_NoCheck(customer_id) ==
  /\ UNCHANGED <<customers, events, now>>
  /\ resp' = Response("get_customer_health", 200, customer_id, None, now,
                      Some(compute_health_breakdown(customers, events, customer_id, now)))

\* get_customer_health recording the request as an api_call event
get_customer_health_Logged(customer_id) ==
  LET c == DbGet(customers, customer_id)
  IN /\ UNCHANGED <<customers, now>>
     /\ IF IsNone(c)
        THEN /\ resp' = Response("get_customer_health", 404, customer_id, None, now,
                                 Some("Customer not found"))
             /\ UNCHANGED events
        ELSE /\ resp' = Response("get_customer_health", 200, customer_id, None, now,
                                 Some(compute_health_breakdown(customers, events, customer_id, now)))
             /\ events' = Append(events, Event(customer_id, "api_call", None, Some(1), now))

get_customer_health(customer_id) ==
  LET c == DbGet(customers, customer_id)
  IN /\ UNCHANGED <<customers, events, now>>
     /\ IF IsNone(c)
        THEN resp' = Response("get_customer_health", 404, customer_id, None, now,
                              Some("Customer not found"))
        ELSE resp' = Response("get_customer_health", 200, customer_id, None, now,
                              Some(compute_health_breakdown(customers, events, customer_id, now)))

\* ------------------------------- scoring.compute_health_breakdown, called directly
\* (as the scoring tests do); as_of is the optional `now` argument.
ComputeBreakdown(customer_id, as_of) ==
  LET t == IF IsNone(as_of) THEN now ELSE Get(as_of)
  IN /\ UNCHANGED <<customers, events, now>>
     /\ resp' = Response("compute_health_breakdown", 200, customer_id, as_of, t,
                         Some(compute_health_breakdown(customers, events, customer_id, t)))

\* ------------------------------------------------------------ the clock
\* A day passes.
Tick ==
  /\ now < T0 + MaxTicks
  /\ now' = now + 1
  /\ UNCHANGED <<customers, events, resp>>

\* ------------------------------------------------------ input domains
\* Provisioned customers: the rows the tests create (no seat count; a small
\* and a large seat count) across the three segments.
CustomerRows ==
  {Customer("smb", None), Customer("enterprise", Some(10)), Customer("startup", Some(1000))}

RequestIds == {1, 2}

\* Well-formed events around the window boundaries of the five factors.
ScoringPayloads ==
  {EventCreate("login", None, None, ts) : ts \in {Some(T0 - 30), Some(T0 + 1)}}
  \cup {EventCreate("feature_use", Some("f1"), None, None),
        EventCreate("feature_use", Some("f2"), None, None)}
  \cup {EventCreate("support_ticket_opened", None, None, None)}
  \cup {EventCreate("invoice_paid", None, None, Some(T0 - 180)),
        EventCreate("invoice_late", None, None, None)}
  \cup {EventCreate("api_call", None, Some(2), None),
        EventCreate("api_call", None, Some(3), Some(T0 - 7)),
        EventCreate("api_call", None, Some(2), Some(T0 - 14))}

\* (customer id, as_of) of the direct calls
DirectCalls == {<<2, None>>, <<1, Some(T0 - 1)>>}

InitResp == Response("none", 0, 0, None, T0, NoBody)

\* ------------------------------------------- Spec: scoring one customer
\* The store holds one provisioned customer (any segment, any seat count);
\* events arrive through the endpoint and breakdowns are requested for the
\* customer and for an id that is not in the store.
Init ==
  /\ customers \in {<<c>> : c \in CustomerRows}
  /\ events = <<>>
  /\ now = T0
  /\ resp = InitResp

RecordEvent ==
  /\ Len(events) < MaxEvents
  /\ \E p \in ScoringPayloads : create_event(1, p)

GetHealth == \E cid \in RequestIds : get_customer_health(cid)

DirectBreakdown == \E c \in DirectCalls : ComputeBreakdown(c[1], c[2])

Next == RecordEvent \/ GetHealth \/ DirectBreakdown \/ Tick

Spec == Init /\ [][Next]_vars


\* --------------------------------- SpecEvents: the record-event endpoint
\* Every combination of kind, feature_key and value, well-formed or not,
\* is posted for the customer of the validation tests and for an id that is
\* not in the store.
PayloadTypes == EventTypes \cup {"bogus"}

AllPayloads ==
  {EventCreate(ty, fk, v, None) :
     ty \in PayloadTypes, fk \in {None, Some(""), Some("f1")},
     v \in {None, Some(-1), Some(0), Some(2)}}
  \cup {EventCreate("login", None, None, Some(T0 - 1))}

InitEvents ==
  /\ customers = <<Customer("smb", None)>>
  /\ events = <<>>
  /\ now = T0
  /\ resp = InitResp

\* Requests for the id that is not in the store
MissingPayloads ==
  {EventCreate(ty, None, None, None) : ty \in {"login", "feature_use", "bogus"}}

PostEvent ==
  /\ \/ \E p \in AllPayloads : create_event(1, p)
     \/ \E p \in MissingPayloads : create_event(2, p)
  /\ Len(events') <= MaxEvents

NextEvents == PostEvent \/ GetHealth

SpecEvents == InitEvents /\ [][NextEvents]_vars

\* ------------------------------------- SpecTickets: a growing ticket count
\* One customer of any segment and size, with no other activity or with the
\* baseline activity of the ticket test, opens support tickets one after
\* another.
SeatChoices == {None, Some(10), Some(1000)}

Baseline ==
  <<Event(1, "login", None, None, T0 - 1),
    Event(1, "feature_use", Some("feature_1"), None, T0 - 2),
    Event(1, "invoice_paid", None, None, T0 - 3)>>

InitTickets ==
  /\ customers \in {<<Customer(seg, seats)>> : seg \in Segments, seats \in SeatChoices}
  /\ events \in {<<>>, Baseline}
  /\ now = T0
  /\ resp = InitResp

TicketsOf(ev, cid) ==
  {i \in DOMAIN ev : ev[i].customer_id = cid /\ ev[i].type = "support_ticket_opened"}

OpenTicket ==
  /\ Cardinality(TicketsOf(events, 1)) < MaxTickets
  /\ create_event(1, EventCreate("support_ticket_opened", None, None, None))

NextTickets == OpenTicket \/ GetHealth

SpecTickets == InitTickets /\ [][NextTickets]_vars

\* ------------------------------------------ SpecApi: api_call volumes
\* One customer reports api_call volumes stamped in the recent 7 days and in
\* the 7 days before them (the two windows of test_api_usage_trend_up_then_down).
ApiValues == {0, 1, 2, 3, 4}

ApiPayloads ==
  {EventCreate("api_call", None, Some(v), Some(ts)) :
     v \in ApiValues, ts \in {T0 - 10, T0 - 3}}

RecordApiCall ==
  /\ Len(events) < MaxEvents
  /\ \E p \in ApiPayloads : create_event(1, p)

NextApi == RecordApiCall \/ GetHealth

SpecApi == InitEvents /\ [][NextApi]_vars

\* ------------------------------------- SpecLogins: a growing login count
\* One customer of any segment and size, whose log is empty or holds a login
\* that has left the 30-day window, logs in again and again.
MaxLogins == 11

InitLogins ==
  /\ customers \in {<<Customer(seg, seats)>> : seg \in Segments, seats \in SeatChoices}
  /\ events \in {<<>>, <<Event(1, "login", None, None, T0 - 31)>>}
  /\ now = T0
  /\ resp = InitResp

LoginsOf(ev, cid) ==
  {i \in DOMAIN ev : ev[i].customer_id = cid /\ ev[i].type = "login"}

RecordLogin ==
  /\ Cardinality(LoginsOf(events, 1)) < MaxLogins
  /\ create_event(1, EventCreate("login", None, None, None))

NextLogins == RecordLogin \/ GetHealth

SpecLogins == InitLogins /\ [][NextLogins]_vars

\* ------------------------------------ SpecFeatures: features being used
\* One customer, whose log is empty or holds a use of feature_1 that has left
\* the 30-day window, uses features: each use is of feature_1 again or of
\* the first feature not used so far (the keys of seed.py, feature_1..).
MaxFeatureUses == 11

FeatureKeys ==
  <<"feature_1", "feature_2", "feature_3", "feature_4", "feature_5", "feature_6",
    "feature_7", "feature_8", "feature_9", "feature_10", "feature_11", "feature_12",
    "feature_13">>

InitFeatures ==
  /\ customers = <<Customer("smb", None)>>
  /\ events \in {<<>>, <<Event(1, "feature_use", Some("feature_1"), None, T0 - 31)>>}
  /\ now = T0
  /\ resp = InitResp

\* The feature_use events stamped by the server (from T0 on).
FeatureUses(ev) == {i \in DOMAIN ev : ev[i].type = "feature_use" /\ ev[i].ts >= T0}

UseFeature ==
  LET used == {events[i].feature_key : i \in FeatureUses(events)}
      next == Cardinality(used) + 1
  IN /\ Cardinality(FeatureUses(events)) < MaxFeatureUses
     /\ next <= Len(FeatureKeys)
     /\ \E k \in {FeatureKeys[1], FeatureKeys[next]} :
          create_event(1, EventCreate("feature_use", Some(k), None, None))

NextFeatures == UseFeature \/ GetHealth

SpecFeatures == InitFeatures /\ [][NextFeatures]_vars

\* --------------------------------------- SpecInvoices: invoice histories
\* One customer is invoiced: paid and late invoices stamped by the server or
\* at given ages (recent, one half-life, the two edges of the 180-day window).
MaxInvoices == 3

InvoicePayloads ==
  {EventCreate(ty, None, None, ts) :
     ty \in {"invoice_paid", "invoice_late"},
     ts \in {None, Some(T0 - 2), Some(T0 - 60), Some(T0 - 180), Some(T0 - 181)}}

RecordInvoice ==
  /\ Len(events) < MaxInvoices
  /\ \E p \in InvoicePayloads : create_event(1, p)

NextInvoices == RecordInvoice \/ GetHealth

SpecInvoices == InitEvents /\ [][NextInvoices]_vars

\* ---------------------------------------------- routers/analytics.py
RISK_RED == 60

RISK_GREEN == 80

FACTORS == <<"login_frequency", "feature_adoption", "support_ticket_volume",
             "invoice_timeliness", "api_usage_trend">>

Floor(x) == x.n \div x.d

Ceil(x) == -((-x.n) \div x.d)

\* round(x, ndigits): to the nearest multiple of 10^-ndigits, an exact tie to
\* the even one.
round(x, ndigits) ==
  LET y == RMul(x, R(10 ^ ndigits))
      f == Floor(y)
      twice == 2 * (y.n % y.d)
      r == IF twice < y.d THEN f
           ELSE IF twice > y.d THEN f + 1
           ELSE IF f % 2 = 0 THEN f ELSE f + 1
  IN Rat(r, 10 ^ ndigits)

\* db.query(Customer) with the optional segment filter: the ids selected.
QueryCustomers(cs, segment) ==
  {i \in DOMAIN cs : IsNone(segment) \/ cs[i].segment = Get(segment)}

\* q.all() carries no ORDER BY: the store may return the selected rows in any
\* order.
StoreOrders(ids) ==
  {o \in [1..Cardinality(ids) -> ids] : \A i, j \in DOMAIN o : i # j => o[i] # o[j]}

\* list.sort(key=total, reverse=desc): a stable sort of (id, name, total).
SortRanked(ranked, desc) ==
  LET Before(a, b) == IF desc THEN RLt(b.total, a.total) ELSE RLt(a.total, b.total)
      pos(i) == Cardinality({j \in DOMAIN ranked : Before(ranked[j], ranked[i])})
                + Cardinality({j \in 1..i : ranked[j].total = ranked[i].total})
  IN [q \in DOMAIN ranked |-> ranked[CHOOSE i \in DOMAIN ranked : pos(i) = q]]

\* scores.sort()
SortScores(scores) ==
  LET pos(i) == Cardinality({j \in DOMAIN scores : RLt(scores[j], scores[i])})
                + Cardinality({j \in 1..i : scores[j] = scores[i]})
  IN [q \in DOMAIN scores |-> scores[CHOOSE i \in DOMAIN scores : pos(i) = q]]

\* s[:5]
First5(s) == SubSeq(s, 1, IF Len(s) < 5 THEN Len(s) ELSE 5)

\* health_summary counting a total equal to RISK_RED as at_risk
health_summary_LeRed(cs, ev, rows, t) ==
  LET n == Len(rows)
      b == [i \in 1..n |-> compute_health_breakdown(cs, ev, rows[i], t)]
      ranked == [i \in 1..n |-> [id |-> rows[i], name |-> cs[rows[i]].name, total |-> b[i].total]]
      Entry(r) == [id |-> r.id, name |-> r.name, score |-> round(r.total, 1)]
      top == First5(SortRanked(ranked, TRUE))
      bottom == First5(SortRanked(ranked, FALSE))
  IN IF n = 0
     THEN [total |-> 0, healthy |-> 0, watch |-> 0, at_risk |-> 0,
           avg_score |-> R(0),
           avg_factors |-> [k \in {FACTORS[i] : i \in DOMAIN FACTORS} |-> R(0)],
           top5 |-> <<>>, bottom5 |-> <<>>]
     ELSE [total |-> n,
           healthy |-> Cardinality({i \in 1..n : ~RLt(b[i].total, R(RISK_GREEN))}),
           watch |-> Cardinality({i \in 1..n : /\ ~RLe(b[i].total, R(RISK_RED))
                                               /\ RLt(b[i].total, R(RISK_GREEN))}),
           at_risk |-> Cardinality({i \in 1..n : RLe(b[i].total, R(RISK_RED))}),
           avg_score |-> round(RDiv(RSum([i \in 1..n |-> b[i].total]), R(n)), 2),
           avg_factors |-> [k \in {FACTORS[i] : i \in DOMAIN FACTORS} |->
                             round(RDiv(RSum([i \in 1..n |-> b[i].factors[k]]), R(n)), 2)],
           top5 |-> [i \in DOMAIN top |-> Entry(top[i])],
           bottom5 |-> [i \in DOMAIN bottom |-> Entry(bottom[i])]]

\* The body of GET /api/health/summary over the rows the store returned.
health_summary(cs, ev, rows, t) ==
  LET n == Len(rows)
      b == [i \in 1..n |-> compute_health_breakdown(cs, ev, rows[i], t)]
      ranked == [i \in 1..n |-> [id |-> rows[i], name |-> cs[rows[i]].name, total |-> b[i].total]]
      Entry(r) == [id |-> r.id, name |-> r.name, score |-> round(r.total, 1)]
      top == First5(SortRanked(ranked, TRUE))
      bottom == First5(SortRanked(ranked, FALSE))
  IN IF n = 0
     THEN [total |-> 0, healthy |-> 0, watch |-> 0, at_risk |-> 0,
           avg_score |-> R(0),
           avg_factors |-> [k \in {FACTORS[i] : i \in DOMAIN FACTORS} |-> R(0)],
           top5 |-> <<>>, bottom5 |-> <<>>]
     ELSE [total |-> n,
           healthy |-> Cardinality({i \in 1..n : ~RLt(b[i].total, R(RISK_GREEN))}),
           watch |-> Cardinality({i \in 1..n : /\ ~RLt(b[i].total, R(RISK_RED))
                                               /\ RLt(b[i].total, R(RISK_GREEN))}),
           at_risk |-> Cardinality({i \in 1..n : RLt(b[i].total, R(RISK_RED))}),
           avg_score |-> round(RDiv(RSum([i \in 1..n |-> b[i].total]), R(n)), 2),
           avg_factors |-> [k \in {FACTORS[i] : i \in DOMAIN FACTORS} |->
                             round(RDiv(RSum([i \in 1..n |-> b[i].factors[k]]), R(n)), 2)],
           top5 |-> [i \in DOMAIN top |-> Entry(top[i])],
           bottom5 |-> [i \in DOMAIN bottom |-> Entry(bottom[i])]]

\* _percentile returning the lower of the two nearest ranks
_percentile_LowerRank(sorted_vals, p) ==
  LET n == Len(sorted_vals)
      k == RMul(R(n - 1), p)
  IN IF n = 0 THEN R(0) ELSE sorted_vals[Floor(k) + 1]

\* p in [0,1]. Linear interpolation between nearest ranks.
_percentile(sorted_vals, p) ==
  LET n == Len(sorted_vals)
      k == RMul(R(n - 1), p)
      f == Floor(k)
      c == Ceil(k)
  IN IF n = 0 THEN R(0)
     ELSE IF f = c THEN sorted_vals[f + 1]
     ELSE RAdd(RMul(sorted_vals[f + 1], RSub(R(c), k)),
               RMul(sorted_vals[c + 1], RSub(k, R(f))))

\* health_trend dating the points one day early
health_trend_DayEarly(cs, ev, rows, days, t) ==
  LET scores == SortScores([i \in DOMAIN rows |->
                              compute_health_breakdown(cs, ev, rows[i], t).total])
      avg == IF scores # <<>> THEN round(RDiv(RSum(scores), R(Len(scores))), 2) ELSE R(0)
      p25 == round(_percentile(scores, Rat(25, 100)), 2)
      p75 == round(_percentile(scores, Rat(75, 100)), 2)
  IN [i \in 1..days |->
        [date |-> t - (days - (i - 1)), avg |-> avg, p25 |-> p25, p75 |-> p75]]

\* health_trend reporting the neutral score 50 for a population without customers
health_trend_NeutralEmpty(cs, ev, rows, days, t) ==
  LET scores == SortScores([i \in DOMAIN rows |->
                              compute_health_breakdown(cs, ev, rows[i], t).total])
      avg == IF scores # <<>> THEN round(RDiv(RSum(scores), R(Len(scores))), 2) ELSE R(50)
      p25 == round(_percentile(scores, Rat(25, 100)), 2)
      p75 == round(_percentile(scores, Rat(75, 100)), 2)
  IN [i \in 1..days |->
        [date |-> t - (days - 1 - (i - 1)), avg |-> avg, p25 |-> p25, p75 |-> p75]]

\* The body of GET /api/health/trend: today's distribution, repeated for
\* each of the last `days` days (dates are day numbers, today is t).
health_trend(cs, ev, rows, days, t) ==
  LET scores == SortScores([i \in DOMAIN rows |->
                              compute_health_breakdown(cs, ev, rows[i], t).total])
      avg == IF scores # <<>> THEN round(RDiv(RSum(scores), R(Len(scores))), 2) ELSE R(0)
      p25 == round(_percentile(scores, Rat(25, 100)), 2)
      p75 == round(_percentile(scores, Rat(75, 100)), 2)
  IN [i \in 1..days |->
        [date |-> t - (days - 1 - (i - 1)), avg |-> avg, p25 |-> p25, p75 |-> p75]]

\* GET /api/health/summary
HealthSummary(segment) ==
  /\ UNCHANGED <<customers, events, now>>
  /\ \E rows \in StoreOrders(QueryCustomers(customers, segment)) :
       resp' = Response("health_summary", 200, 0, segment, now,
                        Some(health_summary(customers, events, rows, now)))

\* GET /api/health/trend
HealthTrend(days, segment) ==
  /\ UNCHANGED <<customers, events, now>>
  /\ \E rows \in StoreOrders(QueryCustomers(customers, segment)) :
       resp' = Response("health_trend", 200, 0, [days |-> days, segment |-> segment], now,
                        Some(health_trend(customers, events, rows, days, now)))

\* _percentile called directly on a sorted list
Percentile(sorted_vals, p) ==
  /\ UNCHANGED <<customers, events, now>>
  /\ resp' = Response("_percentile", 200, 0, [sorted_vals |-> sorted_vals, p |-> p], now,
                      Some(_percentile(sorted_vals, p)))

\* --------------------------------- SpecAnalytics: a population of customers
\* Up to NCustomers customers, each with one of four activity histories:
\*   idle     no events (total 35);
\*   healthy  2 logins, 2 features, a paid invoice and recent api calls
\*            (total 80 at T0, on the healthy threshold);
\*   watch    2 logins, a paid invoice and api calls that stopped a week ago
\*            (total 60 at T0, on the watch threshold);
\*   lapsed   2 logins stamped 31 days before T0, just out of the window;
\*   edge     2 logins and api volumes 2000 then 1999 (total 59.99625 at T0).
\* A summary or a trend is requested with or without a segment filter while
\* days pass.
NCustomers == 2

\* The day counts requested (1 <= days <= 120).
TrendDays == {1, 3}

Names == <<"Bolt", "acme", "Core", "Dune", "Echo">>

Profile(kind, cid) ==
  IF kind = "healthy"
  THEN <<Event(cid, "login", None, None, T0 - 1),
         Event(cid, "login", None, None, T0 - 2),
         Event(cid, "feature_use", Some("feature_1"), None, T0 - 1),
         Event(cid, "feature_use", Some("feature_2"), None, T0 - 1),
         Event(cid, "invoice_paid", None, None, T0 - 5),
         Event(cid, "api_call", None, Some(5), T0 - 2)>>
  ELSE IF kind = "watch"
  THEN <<Event(cid, "login", None, None, T0 - 1),
         Event(cid, "login", None, None, T0 - 2),
         Event(cid, "invoice_paid", None, None, T0 - 5),
         Event(cid, "api_call", None, Some(5), T0 - 10)>>
  ELSE IF kind = "lapsed"
  THEN <<Event(cid, "login", None, None, T0 - 31),
         Event(cid, "login", None, None, T0 - 31)>>
  ELSE IF kind = "edge"
  THEN <<Event(cid, "login", None, None, T0 - 1),
         Event(cid, "login", None, None, T0 - 2),
         Event(cid, "api_call", None, Some(2000), T0 - 10),
         Event(cid, "api_call", None, Some(1999), T0 - 2)>>
  ELSE <<>>

\* (segment, seats, history) of the customers of the population
Population ==
  {<<"smb", None, "idle">>, <<"enterprise", Some(10), "healthy">>,
   <<"enterprise", Some(10), "watch">>, <<"enterprise", Some(10), "lapsed">>}

RECURSIVE Histories(_, _)
Histories(pick, i) ==
  IF i > Len(pick) THEN <<>> ELSE Profile(pick[i][3], i) \o Histories(pick, i + 1)

\* No filter, the segment of most customers, and a segment without customers.
SegmentFilters == {None, Some("enterprise"), Some("startup")}

InitAnalytics ==
  /\ \E n \in 0..NCustomers :
       \E pick \in [1..n -> Population] :
         /\ customers = [i \in 1..n |->
                           [Customer(pick[i][1], pick[i][2]) EXCEPT !.name = Names[i]]]
         /\ events = Histories(pick, 1)
  /\ now = T0
  /\ resp = InitResp

\* The requests leave the store and the clock as they are, so a request that
\* follows another one from the same store and instant reaches no new state:
\* each behaviour is days passing, one request, and days passing.
NoRequestYet == resp = InitResp

Summary ==
  /\ NoRequestYet
  /\ \E segment \in SegmentFilters : HealthSummary(segment)

Trend ==
  /\ NoRequestYet
  /\ \E days \in TrendDays : \E segment \in SegmentFilters : HealthTrend(days, segment)

NextAnalytics == Summary \/ Trend \/ Tick

SpecAnalytics == InitAnalytics /\ [][NextAnalytics]_vars

\* --------------------------------------- SpecPercentile: _percentile alone
\* _percentile is applied to every sorted list of up to MaxVals values of
\* 10, 20, 30, 40 and 12.5, at the quartiles and the two ends.
MaxVals == 4

PercentileValues == {R(10), R(20), R(30), R(40), Rat(25, 2)}

SortedLists ==
  UNION {{v \in [1..n -> PercentileValues] :
            \A i \in 1..(n - 1) : RLe(v[i], v[i + 1])} : n \in 0..MaxVals}

Ranks == {R(0), Rat(1, 4), Rat(1, 2), Rat(3, 4), R(1)}

CallPercentile ==
  /\ NoRequestYet
  /\ \E v \in SortedLists : \E p \in Ranks : Percentile(v, p)

SpecPercentile == InitEvents /\ [][CallPercentile]_vars

\* ---------------------------------------------- routers/customers.py
\* The characters of the customer names and search strings in use.
CodePoints ==
  [Edge |-> <<69, 100, 103, 101>>, Bolt |-> <<66, 111, 108, 116>>,
   acme |-> <<97, 99, 109, 101>>, Core |-> <<67, 111, 114, 101>>,
   Dune |-> <<68, 117, 110, 101>>, Echo |-> <<69, 99, 104, 111>>,
   O |-> <<79>>, ac |-> <<97, 99>>]

\* str.lower()
lower(str) ==
  [i \in DOMAIN CodePoints[str] |->
     IF CodePoints[str][i] \in 65..90 THEN CodePoints[str][i] + 32 ELSE CodePoints[str][i]]

\* a < b for strings (sequences of code points)
RECURSIVE StrLt(_, _)
StrLt(a, b) ==
  IF b = <<>> THEN FALSE
  ELSE IF a = <<>> THEN TRUE
  ELSE IF Head(a) # Head(b) THEN Head(a) < Head(b)
  ELSE StrLt(Tail(a), Tail(b))

\* Customer.name.ilike("%q%")
ilike(name, q) ==
  LET n == lower(name)
      pat == lower(q)
  IN \E i \in 0..(Len(n) - Len(pat)) : SubSeq(n, i + 1, i + Len(pat)) = pat

risk_bucket(score) ==
  IF RLt(score, R(RISK_RED)) THEN "at_risk"
  ELSE IF RLt(score, R(RISK_GREEN)) THEN "watch"
  ELSE "healthy"

\* The query parameters of GET /customers.
ListParams(limit, offset, q, segment, risk, min_score, max_score, sort, order) ==
  [limit |-> limit, offset |-> offset, q |-> q, segment |-> segment, risk |-> risk,
   min_score |-> min_score, max_score |-> max_score, sort |-> sort, order |-> order]

\* qset: the ids selected by the segment and name filters.
ListQuery(cs, params) ==
  {i \in DOMAIN cs : /\ IsNone(params.segment) \/ cs[i].segment = Get(params.segment)
                     /\ IsNone(params.q) \/ ilike(cs[i].name, Get(params.q))}

\* rows.sort(key=keyer, reverse=(order == "desc")): a stable sort.
SortRows(rows, sort, order) ==
  LET Lt(a, b) == IF sort = "name" THEN StrLt(lower(a.name), lower(b.name))
                  ELSE IF sort = "id" THEN a.id < b.id
                  ELSE RLt(a.health_score, b.health_score)
      Before(a, b) == IF order = "desc" THEN Lt(b, a) ELSE Lt(a, b)
      pos(i) == Cardinality({j \in DOMAIN rows : Before(rows[j], rows[i])})
                + Cardinality({j \in 1..i : ~Before(rows[j], rows[i]) /\ ~Before(rows[i], rows[j])})
  IN [k \in DOMAIN rows |-> rows[CHOOSE i \in DOMAIN rows : pos(i) = k]]

\* rows[offset: offset + limit]
Slice(rows, offset, limit) ==
  SubSeq(rows, offset + 1, IF offset + limit < Len(rows) THEN offset + limit ELSE Len(rows))

\* list_customers returning the stored Customer.health_score
list_customers_Cached(cs, ev, found, params, t) ==
  LET row(c) == [id |-> c, name |-> cs[c].name, segment |-> cs[c].segment,
                 seats |-> cs[c].seats, health_score |-> round(cs[c].health_score, 2)]
      rows == [i \in DOMAIN found |-> row(found[i])]
      Keep(r) == /\ IsNone(params.risk) \/ risk_bucket(r.health_score) = Get(params.risk)
                 /\ RLe(R(params.min_score), r.health_score)
                 /\ RLe(r.health_score, R(params.max_score))
  IN Slice(SortRows(SelectSeq(rows, Keep), params.sort, params.order),
           params.offset, params.limit)

\* The body of GET /customers over the rows `found` the store returned.
list_customers(cs, ev, found, params, t) ==
  LET row(c) == [id |-> c, name |-> cs[c].name, segment |-> cs[c].segment,
                 seats |-> cs[c].seats,
                 health_score |-> round(compute_health_breakdown(cs, ev, c, t).total, 2)]
      rows == [i \in DOMAIN found |-> row(found[i])]
      Keep(r) == /\ IsNone(params.risk) \/ risk_bucket(r.health_score) = Get(params.risk)
                 /\ RLe(R(params.min_score), r.health_score)
                 /\ RLe(r.health_score, R(params.max_score))
  IN Slice(SortRows(SelectSeq(rows, Keep), params.sort, params.order),
           params.offset, params.limit)

\* GET /customers
ListCustomers(params) ==
  /\ UNCHANGED <<customers, events, now>>
  /\ \E found \in StoreOrders(ListQuery(customers, params)) :
       resp' = Response("list_customers", 200, 0, params, now,
                        Some(list_customers(customers, events, found, params, now)))

\* ------------------------------------ SpecList: the read side of the API
\* Up to NCustomers customers (named Names[1], Names[2], ...) with the event
\* histories of Profile; a store of one customer may take one more event,
\* and then the store is read: a page of the customer table and the pages after
\* it, a breakdown, a summary, a trend.
ListPopulation ==
  {<<"smb", None, "idle">>, <<"enterprise", Some(10), "healthy">>,
   <<"enterprise", Some(10), "watch">>, <<"enterprise", Some(10), "edge">>}

\* The defaults of the query parameters of GET /customers.
ListDefaults == ListParams(50, 0, None, None, None, 0, 100, "health_score", "asc")

ListRequests ==
  {ListDefaults,
   [ListDefaults EXCEPT !.order = "desc"],
   [ListDefaults EXCEPT !.sort = "name"],
   [ListDefaults EXCEPT !.sort = "id", !.order = "desc"],
   [ListDefaults EXCEPT !.q = Some("ac")],
   [ListDefaults EXCEPT !.q = Some("O"), !.sort = "name", !.order = "desc"],
   [ListDefaults EXCEPT !.segment = Some("enterprise")],
   [ListDefaults EXCEPT !.risk = Some("at_risk")],
   [ListDefaults EXCEPT !.risk = Some("watch")],
   [ListDefaults EXCEPT !.risk = Some("healthy")],
   [ListDefaults EXCEPT !.min_score = 60],
   [ListDefaults EXCEPT !.max_score = 59],
   [ListDefaults EXCEPT !.limit = 1],
   [ListDefaults EXCEPT !.limit = 1, !.sort = "name"]}

ListPayloads ==
  {EventCreate("login", None, None, Some(T0 - 1)),
   EventCreate("invoice_late", None, None, Some(T0 - 3)),
   EventCreate("support_ticket_opened", None, None, None)}

InitList ==
  /\ \E n \in 0..NCustomers :
       \E pick \in [1..n -> ListPopulation] :
         /\ customers = [i \in 1..n |->
                           [Customer(pick[i][1], pick[i][2]) EXCEPT !.name = Names[i]]]
         /\ events = Histories(pick, 1)
  /\ now = T0
  /\ resp = InitResp

\* No read has been served yet.
ReadyToRead == resp.op \in {"none", "create_event"}

ListPost ==
  /\ NoRequestYet
  /\ Len(customers) = 1
  /\ \E p \in ListPayloads : create_event(1, p)

List ==
  /\ ReadyToRead
  /\ \E params \in ListRequests : ListCustomers(params)

\* The client asks for the page after the one it has (same parameters, the
\* offset moved on by the limit).
NextPage ==
  /\ resp.op = "list_customers"
  /\ resp.req.limit = 1
  /\ resp.req.offset < Len(customers)
  /\ ListCustomers([resp.req EXCEPT !.offset = resp.req.offset + resp.req.limit])

ListHealth ==
  /\ ReadyToRead
  /\ GetHealth

ListBreakdown ==
  /\ ReadyToRead
  /\ DirectBreakdown

ListSummary ==
  /\ ReadyToRead
  /\ \E segment \in SegmentFilters : HealthSummary(segment)

ListTrend ==
  /\ ReadyToRead
  /\ \E days \in TrendDays : \E segment \in SegmentFilters : HealthTrend(days, segment)

NextList ==
  ListPost \/ List \/ NextPage \/ ListHealth \/ ListBreakdown \/ ListSummary \/ ListTrend

SpecList == InitList /\ [][NextList]_vars

\* -------------------------------------------- SpecClamp: clamp on its own
\* clamp called directly, as the scoring test does
Clamp(x) ==
  /\ UNCHANGED <<customers, events, now>>
  /\ resp' = Response("clamp", 200, 0, x, now, Some(clamp(x)))

\* Quarters from -10 to 110, the bounds of the range and the values of the
\* test (-10, 150, 42.5) among them.
ClampInputs == {Rat(n, 4) : n \in -40..440} \cup {R(150)}

CallClamp ==
  /\ NoRequestYet
  /\ \E x \in ClampInputs : Clamp(x)

SpecClamp == InitEvents /\ [][CallClamp]_vars

\* ------------------- SpecConcurrent: a breakdown while events are committed
\* compute_health_breakdown issues six queries one after the other (logins,
\* feature keys, tickets, invoices, the api volume of the last 7 days, the api
\* volume of the 7 days before).  The engine is created without an isolation
\* level and the session is never put in a snapshot transaction, so every
\* query reads what is committed when it runs.  The request in flight is kept
\* in resp: req is the number of the next query, body the results so far.
\* The response to the client that posts an event is not recorded here: resp
\* belongs to the client that asked for the breakdown.
ApiLast(ev, customer_id, t) ==
  SumSeq([i \in DOMAIN ev |->
            IF /\ ev[i].customer_id = customer_id
               /\ ev[i].type = "api_call"
               /\ ev[i].ts >= t - 7
               /\ ~IsNone(ev[i].value)
            THEN Get(ev[i].value) ELSE 0])

ApiPrev(ev, customer_id, t) ==
  SumSeq([i \in DOMAIN ev |->
            IF /\ ev[i].customer_id = customer_id
               /\ ev[i].type = "api_call"
               /\ ev[i].ts < t - 7
               /\ ev[i].ts >= t - 14
               /\ ~IsNone(ev[i].value)
            THEN Get(ev[i].value) ELSE 0])

NoResults ==
  [login_frequency |-> R(0), feature_adoption |-> R(0), support_ticket_volume |-> R(0),
   invoice_timeliness |-> R(0), last |-> 0]

\* get_customer_health up to the first query of the breakdown
BeginHealth(customer_id) ==
  LET c == DbGet(customers, customer_id)
  IN /\ UNCHANGED <<customers, events, now>>
     /\ IF IsNone(c)
        THEN resp' = Response("get_customer_health", 404, customer_id, None, now,
                              Some("Customer not found"))
        ELSE resp' = Response("breakdown_running", 0, customer_id, 1, now, Some(NoResults))

\* The next query of the breakdown in flight; the sixth completes the request.
RunQuery ==
  LET cid == resp.cid
      t   == resp.at
      ctx == _get_ctx(customers, cid)
      k   == resp.req
      sofar == Get(resp.body)
  IN /\ resp.op = "breakdown_running"
     /\ UNCHANGED <<customers, events, now>>
     /\ IF k = 1
        THEN resp' = [resp EXCEPT !.req = 2,
                        !.body = Some([sofar EXCEPT !.login_frequency =
                                         _login_frequency_score(events, cid, t, ctx.seg, ctx.seats)])]
        ELSE IF k = 2
        THEN resp' = [resp EXCEPT !.req = 3,
                        !.body = Some([sofar EXCEPT !.feature_adoption =
                                         _feature_adoption_score(events, cid, t)])]
        ELSE IF k = 3
        THEN resp' = [resp EXCEPT !.req = 4,
                        !.body = Some([sofar EXCEPT !.support_ticket_volume =
                                         _support_ticket_score(events, cid, t, ctx.seg, ctx.seats)])]
        ELSE IF k = 4
        THEN resp' = [resp EXCEPT !.req = 5,
                        !.body = Some([sofar EXCEPT !.invoice_timeliness =
                                         _invoice_timeliness_score(events, cid, t)])]
        ELSE IF k = 5
        THEN resp' = [resp EXCEPT !.req = 6,
                        !.body = Some([sofar EXCEPT !.last = ApiLast(events, cid, t)])]
        ELSE LET factors ==
                   [login_frequency       |-> sofar.login_frequency,
                    feature_adoption      |-> sofar.feature_adoption,
                    support_ticket_volume |-> sofar.support_ticket_volume,
                    invoice_timeliness    |-> sofar.invoice_timeliness,
                    api_usage_trend       |-> ApiTrendScore(sofar.last, ApiPrev(events, cid, t))]
                 total == RSum([i \in 1..5 |->
                                  RMul(WEIGHTS[FactorOrder[i]], factors[FactorOrder[i]])])
             IN resp' = Response("get_customer_health", 200, cid, None, t,
                                 Some([total |-> clamp(total), factors |-> factors]))

\* create_event of another client, for a payload that passes validation: the
\* row is added and committed.
Commit(customer_id, payload) ==
  /\ payload.type \in EventTypes
  /\ ~IsNone(DbGet(customers, customer_id))
  /\ IsNone(CrossFieldError(payload.type, payload))
  /\ events' = Append(events, Event(customer_id, payload.type, payload.feature_key,
                                    payload.value,
                                    IF IsNone(payload.ts) THEN now ELSE Get(payload.ts)))
  /\ now' = IF IsNone(payload.ts) THEN now + 1 ELSE now
  /\ UNCHANGED <<customers, resp>>

ConcurrentPayloads ==
  {EventCreate("login", None, None, Some(T0 - 1)),
   EventCreate("feature_use", Some("f1"), None, Some(T0 - 1)),
   EventCreate("support_ticket_opened", None, None, None),
   EventCreate("invoice_late", None, None, Some(T0 - 3)),
   EventCreate("api_call", None, Some(3), Some(T0 - 2)),
   EventCreate("api_call", None, Some(2), Some(T0 - 10))}

InitConcurrent ==
  /\ customers = <<Customer("enterprise", Some(10))>>
  /\ events = <<>>
  /\ now = T0
  /\ resp = InitResp

StartHealth ==
  /\ NoRequestYet
  /\ \E cid \in RequestIds : BeginHealth(cid)

CommitEvent ==
  /\ Len(events) < MaxEvents
  /\ \E p \in ConcurrentPayloads : Commit(1, p)

NextConcurrent == StartHealth \/ RunQuery \/ CommitEvent

SpecConcurrent == InitConcurrent /\ [][NextConcurrent]_vars

\* ----------------------------- SpecFrame: events of two customers
\* Two customers of different segments; events of every kind, inside and
\* outside the scoring windows, arrive for either of them.
FramePayloads ==
  {EventCreate("login", None, None, None),
   EventCreate("login", None, None, Some(T0 - 31)),
   EventCreate("feature_use", Some("f1"), None, None),
   EventCreate("support_ticket_opened", None, None, None),
   EventCreate("invoice_paid", None, None, Some(T0 - 5)),
   EventCreate("invoice_late", None, None, None),
   EventCreate("api_call", None, Some(2), None),
   EventCreate("api_call", None, Some(3), Some(T0 - 10))}

InitFrame ==
  /\ customers = <<Customer("smb", None), Customer("enterprise", Some(10))>>
  /\ events = <<>>
  /\ now = T0
  /\ resp = InitResp

FramePost ==
  /\ Len(events) < MaxEvents
  /\ \E cid \in RequestIds : \E p \in FramePayloads : create_event(cid, p)

SpecFrame == InitFrame /\ [][FramePost]_vars

\* =================================================================== claims
FactorNames == {"login_frequency", "feature_adoption", "support_ticket_volume",
                "invoice_timeliness", "api_usage_trend"}

\* The last response carries a breakdown {total, factors}.
IsBreakdown(r) ==
  r.op \in {"get_customer_health", "compute_health_breakdown"} /\ r.status = 200

InRange(x) == RLe(R(0), x) /\ RLe(x, R(100))

\* The events of the log that belong to a customer.
EventsOf(ev, cid) == {i \in DOMAIN ev : ev[i].customer_id = cid}

\* C1: every breakdown returned, for any customer and any event log, has a
\* total in [0,100] and exactly the five named factors, each in [0,100].
C1_Bounds ==
  IsBreakdown(resp) =>
    LET b == Get(resp.body)
    IN /\ InRange(b.total)
       /\ DOMAIN b.factors = FactorNames
       /\ \A f \in FactorNames : InRange(b.factors[f])

\* A breakdown whose login factor was cut down to 100: two logins in the
\* window of the 10-seat enterprise customer (target 1.5 logins).
C1_Witness ==
  /\ IsBreakdown(resp)
  /\ resp.cid = 1
  /\ customers[1].segment = "enterprise"
  /\ customers[1].seats = Some(10)
  /\ Cardinality({i \in EventsOf(events, 1) :
                    events[i].type = "login" /\ events[i].ts >= resp.at - 30}) = 2
  /\ Get(resp.body).factors.login_frequency = R(100)

C3_NoData ==
  (/\ resp.op \in {"get_customer_health", "compute_health_breakdown"}
   /\ resp.cid \in DOMAIN customers
   /\ IsNone(customers[resp.cid].seats)
   /\ EventsOf(events, resp.cid) = {})
  => /\ resp.status = 200
     /\ Get(resp.body).factors =
          [login_frequency |-> R(0), feature_adoption |-> R(0),
           support_ticket_volume |-> R(100), invoice_timeliness |-> R(50),
           api_usage_trend |-> R(50)]
     /\ Get(resp.body).total = R(35)

C3_Witness ==
  /\ resp.op = "get_customer_health"
  /\ resp.cid \in DOMAIN customers
  /\ IsNone(customers[resp.cid].seats)
  /\ EventsOf(events, resp.cid) = {}
  /\ resp.status = 200

\* The factors of customer cid at instant t when every factor counts exactly
\* the events of its half-open window ending at t.
C4_WindowFactors(cs, ev, cid, t) ==
  LET ctx == _get_ctx(cs, cid)
      In(i, ty, lo, hi) == /\ ev[i].customer_id = cid
                           /\ ev[i].type \in ty
                           /\ ev[i].ts >= lo
                           /\ ev[i].ts < hi
      Win(ty, lo, hi) == {i \in DOMAIN ev : In(i, ty, lo, hi)}
      Sum(ty, lo, hi, f(_)) ==
        SumSeq([i \in DOMAIN ev |-> IF In(i, ty, lo, hi) THEN f(i) ELSE 0])
      Weight(i) == w(t, ev[i].ts)
      Value(i) == IF IsNone(ev[i].value) THEN 0 ELSE Get(ev[i].value)
  IN [login_frequency |->
        LoginScore(Cardinality(Win({"login"}, t - 30, t)), ctx.seg, ctx.seats),
      feature_adoption |->
        FeatureScore(Cardinality({ev[i].feature_key : i \in Win({"feature_use"}, t - 30, t)})),
      support_ticket_volume |->
        TicketScore(Cardinality(Win({"support_ticket_opened"}, t - 30, t)), ctx.seg, ctx.seats),
      invoice_timeliness |->
        InvoiceScore(Cardinality(Win({"invoice_paid", "invoice_late"}, t - 180, t)),
                     Sum({"invoice_paid"}, t - 180, t, Weight),
                     Sum({"invoice_late"}, t - 180, t, Weight)),
      api_usage_trend |->
        ApiTrendScore(Sum({"api_call"}, t - 7, t, Value),
                      Sum({"api_call"}, t - 14, t - 7, Value))]

\* C4: the factors of a breakdown at instant T count exactly the events of
\* the half-open windows [T-30d, T), [T-180d, T), [T-7d, T) and [T-14d, T-7d);
\* an event stamped at or after T does not change the result.
C4_Windows ==
  IsBreakdown(resp) =>
    Get(resp.body).factors = C4_WindowFactors(customers, events, resp.cid, resp.at)

\* C8: total = clamp(0.25 login_frequency + 0.25 feature_adoption
\* + 0.20 support_ticket_volume + 0.15 invoice_timeliness + 0.15 api_usage_trend);
\* the weights sum to 1.0 and are named exactly as the factors returned.
C8_WeightedTotal ==
  /\ RSum([i \in 1..5 |-> WEIGHTS[FactorOrder[i]]]) = R(1)
  /\ DOMAIN WEIGHTS = FactorNames
  /\ IsBreakdown(resp) =>
       LET b == Get(resp.body)
           f == b.factors
           sum == RSum(<<RMul(Rat(25, 100), f.login_frequency),
                         RMul(Rat(25, 100), f.feature_adoption),
                         RMul(Rat(20, 100), f.support_ticket_volume),
                         RMul(Rat(15, 100), f.invoice_timeliness),
                         RMul(Rat(15, 100), f.api_usage_trend)>>)
       IN /\ DOMAIN f = DOMAIN WEIGHTS
          /\ b.total = RMax(R(0), RMin(R(100), sum))

\* A breakdown in which the five factors take five different values.
C8_Witness ==
  /\ IsBreakdown(resp)
  /\ Cardinality({Get(resp.body).factors[f] : f \in FactorNames}) >= 4
  /\ Get(resp.body).factors.invoice_timeliness # Get(resp.body).factors.api_usage_trend

\* The kind-specific payload shape of the Event invariant.
ShapeOK(type, feature_key, value) ==
  \/ /\ type = "feature_use"
     /\ feature_key \notin {None, Some("")}
     /\ value = None
  \/ /\ type = "api_call"
     /\ value # None
     /\ Get(value) >= 0
     /\ feature_key = None
  \/ /\ type \in {"login", "support_ticket_opened", "invoice_paid", "invoice_late"}
     /\ feature_key = None
     /\ value = None

\* C5: create_event for an existing customer answers 201 if and only if the
\* payload matches its kind, and 422 for every other payload.
C5_AcceptedIffShape ==
  (resp.op = "create_event" /\ resp.cid \in DOMAIN customers) =>
    /\ resp.status \in {201, 422}
    /\ resp.status = 201 <=> ShapeOK(resp.req.type, resp.req.feature_key, resp.req.value)

\* An api_call with value 0 (the smallest accepted value) was accepted.
C5_Witness ==
  /\ resp.op = "create_event"
  /\ resp.status = 201
  /\ resp.req.type = "api_call"
  /\ resp.req.value = Some(0)

\* C6: a create_event request that is rejected (422 or 404) leaves the event
\* log and the customers unchanged.
C6_RejectedNoAppend ==
  [][(resp'.op = "create_event" /\ resp'.status # 201)
       => (events' = events /\ customers' = customers)]_vars

\* A feature_use carrying a value was rejected while the log holds events.
C6_Witness ==
  /\ resp.op = "create_event"
  /\ resp.status = 422
  /\ resp.req.type = "feature_use"
  /\ resp.req.value # None
  /\ Len(events) > 0

\* C7: every stored event satisfies the kind invariant and refers to an
\* existing customer.
C7_EventInvariant ==
  \A i \in DOMAIN events :
    /\ ShapeOK(events[i].type, events[i].feature_key, events[i].value)
    /\ events[i].customer_id \in DOMAIN customers

\* Two events are stored and the last request was rejected.
C7_Witness ==
  /\ Len(events) >= 2
  /\ resp.op = "create_event"
  /\ resp.status = 422
  /\ \E i \in DOMAIN events : events[i].type = "feature_use"

\* The log with one more support ticket of customer cid, opened a day before t.
OneMoreTicket(ev, cid, t) ==
  Append(ev, Event(cid, "support_ticket_opened", None, None, t - 1))

\* The number of tickets of customer cid in the 30-day window of instant t.
TicketsInWindow(ev, cid, t) ==
  Cardinality({i \in TicketsOf(ev, cid) : ev[i].ts >= t - 30})

\* C9 as stated: one more support ticket in the 30-day window, the other
\* four factors unchanged, strictly decreases total.
C9_Original ==
  LET b0 == compute_health_breakdown(customers, events, 1, now)
      b1 == compute_health_breakdown(customers, OneMoreTicket(events, 1, now), 1, now)
  IN RLt(b1.total, b0.total)

\* C9 amended: one more support ticket in the 30-day window leaves the other
\* four factors unchanged and never increases total; it strictly decreases
\* total while the support_ticket_volume score before it is above 0.
C9_Amended ==
  LET b0 == compute_health_breakdown(customers, events, 1, now)
      b1 == compute_health_breakdown(customers, OneMoreTicket(events, 1, now), 1, now)
  IN /\ \A f \in FactorNames \ {"support_ticket_volume"} : b1.factors[f] = b0.factors[f]
     /\ RLe(b1.total, b0.total)
     /\ RLt(R(0), b0.factors.support_ticket_volume) => RLt(b1.total, b0.total)

\* A breakdown was returned with tickets in the window and a ticket score
\* strictly between 0 and 100.
C9_Witness ==
  /\ resp.op = "get_customer_health"
  /\ resp.status = 200
  /\ TicketsInWindow(events, 1, resp.at) >= 2
  /\ RLt(R(0), Get(resp.body).factors.support_ticket_volume)
  /\ RLt(Get(resp.body).factors.support_ticket_volume, R(100))

\* Seat counts compared by C10.
C10_Seats == {1, 10, 50, 100, 101, 200, 1000}

\* C10 as stated: for the same positive ticket count, the customer with
\* more seats gets the higher support_ticket_volume score, for every pair of
\* seat counts.
C10_Original ==
  TicketsInWindow(events, 1, now) > 0 =>
    \A s1, s2 \in C10_Seats :
      s1 < s2 =>
        RLt(_support_ticket_score(events, 1, now, customers[1].segment, s1),
            _support_ticket_score(events, 1, now, customers[1].segment, s2))

\* C10 amended: for the same segment and the same positive ticket count, the
\* customer with more seats never scores lower, and scores strictly higher
\* when the larger seat count is above 100 and its score is above 0; with 6
\* tickets the 10-seat startup scores lower than the 1000-seat enterprise.
C10_Amended ==
  TicketsInWindow(events, 1, now) > 0 =>
    /\ \A s1, s2 \in C10_Seats :
         s1 < s2 =>
           LET a == _support_ticket_score(events, 1, now, customers[1].segment, s1)
               b == _support_ticket_score(events, 1, now, customers[1].segment, s2)
           IN /\ RLe(a, b)
              /\ (s2 > 100 /\ RLt(R(0), b)) => RLt(a, b)
    /\ TicketsInWindow(events, 1, now) = 6 =>
         RLt(_support_ticket_score(events, 1, now, "startup", 10),
             _support_ticket_score(events, 1, now, "enterprise", 1000))

\* Six tickets are in the window and a breakdown was returned.
C10_Witness ==
  /\ TicketsInWindow(events, 1, now) = 6
  /\ resp.op = "get_customer_health"
  /\ resp.status = 200
  /\ RLt(Get(resp.body).factors.support_ticket_volume, R(100))

\* The api_call volume of customer cid stamped in [lo, hi).
ApiVolume(ev, cid, lo, hi) ==
  SumSeq([i \in DOMAIN ev |->
            IF /\ ev[i].customer_id = cid
               /\ ev[i].type = "api_call"
               /\ ev[i].ts >= lo
               /\ ev[i].ts < hi
            THEN Get(ev[i].value) ELSE 0])

\* recent = 2^k * prev, for k in -2..2
IsPow2Ratio(recent, prev, k) ==
  IF k >= 0 THEN recent = prev * (2 ^ k) ELSE prev = recent * (2 ^ (-k))

\* C11: when both 7-day sums are positive, api_usage_trend is
\* clamp(50 + 25*log2(recent/prev)): quartering scores 0, halving 25, equal
\* sums 50, doubling 75 and quadrupling 100.
C11_LogRatio ==
  (IsBreakdown(resp) /\ resp.cid = 1) =>
    LET recent == ApiVolume(events, 1, resp.at - 7, resp.at)
        prev == ApiVolume(events, 1, resp.at - 14, resp.at - 7)
    IN (recent > 0 /\ prev > 0) =>
         \A k \in -2..2 :
           IsPow2Ratio(recent, prev, k) =>
             Get(resp.body).factors.api_usage_trend = RMax(R(0), RMin(R(100), R(50 + 25 * k)))

\* C12: api_usage_trend is 50 when the recent and previous 7-day sums are
\* equal (also when both are zero), above 50 when recent > prev, below 50
\* when recent < prev, 100 when prev is zero and recent positive, and 0 when
\* prev is positive and recent zero.
C12_TrendDirection ==
  (IsBreakdown(resp) /\ resp.cid = 1) =>
    LET recent == ApiVolume(events, 1, resp.at - 7, resp.at)
        prev == ApiVolume(events, 1, resp.at - 14, resp.at - 7)
        score == Get(resp.body).factors.api_usage_trend
    IN /\ recent = prev => score = R(50)
       /\ recent > prev => RLt(R(50), score)
       /\ recent < prev => RLt(score, R(50))
       /\ (prev = 0 /\ recent > 0) => score = R(100)
       /\ (prev > 0 /\ recent = 0) => score = R(0)

\* A breakdown over a falling volume: recent 1 against previous 4, scored
\* strictly between 0 and 50.
C12_Witness ==
  /\ IsBreakdown(resp)
  /\ resp.cid = 1
  /\ ApiVolume(events, 1, resp.at - 7, resp.at) = 1
  /\ ApiVolume(events, 1, resp.at - 14, resp.at - 7) = 4
  /\ RLt(R(0), Get(resp.body).factors.api_usage_trend)
  /\ RLt(Get(resp.body).factors.api_usage_trend, R(50))

\* The log with one more login of customer cid, a day before t.
OneMoreLogin(ev, cid, t) == Append(ev, Event(cid, "login", None, None, t - 1))

\* The number of logins of customer cid in the 30-day window of instant t.
LoginsInWindow(ev, cid, t) ==
  Cardinality({i \in LoginsOf(ev, cid) : ev[i].ts >= t - 30 /\ ev[i].ts < t})

\* Seat counts compared by C13.
C13_Seats == {1, 2, 5, 20, 200, 1000}

\* One more login never lowers login_frequency and strictly raises it while
\* it is below 100 (first half of C13).
C13_MoreLogins ==
  LET ctx == _get_ctx(customers, 1)
      a == _login_frequency_score(events, 1, now, ctx.seg, ctx.seats)
      b == _login_frequency_score(OneMoreLogin(events, 1, now), 1, now, ctx.seg, ctx.seats)
  IN /\ RLe(a, b)
     /\ RLt(a, R(100)) => RLt(a, b)

\* C13 as stated: more logins never lowers login_frequency and strictly
\* raises it while it is below 100; for a fixed login count more seats never
\* raises the score and strictly lowers it while it is below 100.
C13_Original ==
  /\ C13_MoreLogins
  /\ \A s1, s2 \in C13_Seats :
       s1 < s2 =>
         LET a == _login_frequency_score(events, 1, now, customers[1].segment, s1)
             b == _login_frequency_score(events, 1, now, customers[1].segment, s2)
         IN /\ RLe(b, a)
            /\ RLt(b, R(100)) => RLt(b, a)

\* C13 amended: as stated for logins; for a fixed login count more seats
\* never raises the score, and strictly lowers it when the window holds at
\* least one login and the score at the larger seat count is below 100 (so
\* 20 logins at 20 seats score higher than 20 logins at 200 seats; with no
\* login the score is 0 at every seat count).
C13_Amended ==
  /\ C13_MoreLogins
  /\ \A s1, s2 \in C13_Seats :
       s1 < s2 =>
         LET a == _login_frequency_score(events, 1, now, customers[1].segment, s1)
             b == _login_frequency_score(events, 1, now, customers[1].segment, s2)
         IN /\ RLe(b, a)
            /\ (LoginsInWindow(events, 1, now) > 0 /\ RLt(b, R(100))) => RLt(b, a)
            /\ LoginsInWindow(events, 1, now) = 0 => (a = R(0) /\ b = R(0))
  /\ RLt(LoginScore(20, "smb", 200), LoginScore(20, "smb", 20))

\* A breakdown was returned with several logins in the window and a login
\* score strictly between 0 and 100, while an older login is out of the window.
C13_Witness ==
  /\ resp.op = "get_customer_health"
  /\ resp.status = 200
  /\ LoginsInWindow(events, 1, resp.at) >= 2
  /\ Cardinality(LoginsOf(events, 1)) > LoginsInWindow(events, 1, resp.at)
  /\ RLt(R(0), Get(resp.body).factors.login_frequency)
  /\ RLt(Get(resp.body).factors.login_frequency, R(100))

\* The feature keys customer cid used in the 30-day window of instant t.
KeysInWindow(ev, cid, t) ==
  {ev[i].feature_key : i \in {j \in DOMAIN ev : /\ ev[j].customer_id = cid
                                                 /\ ev[j].type = "feature_use"
                                                 /\ ev[j].ts >= t - 30
                                                 /\ ev[j].ts < t}}

\* The log with one more use of feature k by customer cid, a day before t.
OneMoreUse(ev, cid, k, t) == Append(ev, Event(cid, "feature_use", Some(k), None, t - 1))

\* C14: feature_adoption depends only on the number of distinct feature keys
\* in the 30-day window: one more feature_use of a key already in the window
\* leaves it unchanged, one of a new key strictly raises it while fewer than
\* 10 distinct keys are in the window.
C14_DistinctKeys ==
  LET present == KeysInWindow(events, 1, now)
      score == _feature_adoption_score(events, 1, now)
  IN /\ score = RMin(R(100), R(10 * Cardinality(present)))
     /\ \A n \in DOMAIN FeatureKeys :
          LET more == _feature_adoption_score(
                        OneMoreUse(events, 1, FeatureKeys[n], now), 1, now)
          IN /\ Some(FeatureKeys[n]) \in present => more = score
             /\ (Some(FeatureKeys[n]) \notin present /\ Cardinality(present) < 10)
                  => RLt(score, more)

\* A breakdown was returned for a log in which a key of the window is used
\* more than once, another use of it has left the window, and fewer than 10
\* distinct keys are in the window.
C14_Witness ==
  /\ resp.op = "get_customer_health"
  /\ resp.status = 200
  /\ Cardinality(KeysInWindow(events, 1, resp.at)) \in 2..9
  /\ Cardinality(FeatureUses(events)) > Cardinality(KeysInWindow(events, 1, resp.at))
  /\ events[1].ts < resp.at - 30
  /\ Get(resp.body).factors.feature_adoption =
       R(10 * Cardinality(KeysInWindow(events, 1, resp.at)))

\* The invoice events of customer cid in the 180-day window of instant t.
InvoicesInWindow(ev, cid, t) ==
  {i \in DOMAIN ev : /\ ev[i].customer_id = cid
                     /\ ev[i].type \in {"invoice_paid", "invoice_late"}
                     /\ ev[i].ts >= t - 180
                     /\ ev[i].ts < t}

\* The sum of the weights at instant t of the events of rows whose kind is in ty.
WeightOf(ev, rows, ty, t) ==
  SumSeq([i \in DOMAIN ev |->
            IF i \in rows /\ ev[i].type \in ty THEN w(t, ev[i].ts) ELSE 0])

\* Ages (days) a late invoice is moved to.
C15_Ages == {1, 2, 30, 59, 60, 61, 120, 179, 180}

\* C15: invoice_timeliness is 100 * (sum of the weights of the paid
\* invoices) / (sum of the weights of all invoices of the window), 50 when
\* the window holds none; the weight strictly decreases with the age; and of
\* two histories with a paid invoice that differ only in the age of one late
\* invoice, the one whose late invoice is more recent scores strictly lower.
C15_RecencyWeighted ==
  LET rows == InvoicesInWindow(events, 1, now)
      paid_w == WeightOf(events, rows, {"invoice_paid"}, now)
      all_w == WeightOf(events, rows, {"invoice_paid", "invoice_late"}, now)
      score == _invoice_timeliness_score(events, 1, now)
  IN /\ score = IF rows = {} THEN R(50) ELSE Rat(100 * paid_w, all_w)
     /\ \A a \in 0..180 : w(now, now - (a + 1)) < w(now, now - a)
     /\ \A i \in rows :
          (events[i].type = "invoice_late" /\ paid_w > 0) =>
            \A a \in C15_Ages :
              a < now - events[i].ts =>
                RLt(_invoice_timeliness_score(
                      [events EXCEPT ![i].ts = now - a], 1, now), score)

\* A breakdown was returned for a history with a paid and a late invoice of
\* different ages in the window and an invoice that has left the window.
C15_Witness ==
  /\ resp.op = "get_customer_health"
  /\ resp.status = 200
  /\ \E i, j \in InvoicesInWindow(events, 1, resp.at) :
       /\ events[i].type = "invoice_paid"
       /\ events[j].type = "invoice_late"
       /\ events[j].ts < events[i].ts
       /\ events[j].ts > resp.at - 180
  /\ \E i \in DOMAIN events : events[i].ts < resp.at - 180
  /\ RLt(R(50), Get(resp.body).factors.invoice_timeliness)
  /\ RLt(Get(resp.body).factors.invoice_timeliness, R(100))

\* The total of customer cid at instant t.
TotalAt(cid, t) == compute_health_breakdown(customers, events, cid, t).total

\* The sorted totals, at instant t, of the customers a segment filter selects.
SortedTotalsAt(segment, t) ==
  LET ids == QueryCustomers(customers, segment)
      rows == CHOOSE o \in StoreOrders(ids) : TRUE
  IN SortScores([i \in DOMAIN rows |-> TotalAt(rows[i], t)])

\* C16: every trend point is computed from that day's own distribution: the
\* avg, p25 and p75 of day d are the average and the percentiles of the
\* customers' totals recomputed with day d as the reference instant.
C16_PerDay ==
  resp.op = "health_trend" =>
    \A i \in DOMAIN Get(resp.body) :
      LET pt == Get(resp.body)[i]
          scores == SortedTotalsAt(resp.req.segment, pt.date)
      IN /\ pt.avg = IF scores = <<>> THEN R(0)
                     ELSE round(RDiv(RSum(scores), R(Len(scores))), 2)
         /\ pt.p25 = round(_percentile(scores, Rat(1, 4)), 2)
         /\ pt.p75 = round(_percentile(scores, Rat(3, 4)), 2)

\* C17: trend(days) returns exactly `days` points, one per calendar day, with
\* consecutive increasing dates (oldest first) and the last point dated today.
C17_TrendShape ==
  resp.op = "health_trend" =>
    LET pts == Get(resp.body)
    IN /\ Len(pts) = resp.req.days
       /\ \A i \in 1..(Len(pts) - 1) : pts[i + 1].date = pts[i].date + 1
       /\ pts[Len(pts)].date = resp.at

\* A trend over three days was returned for a population, after a day passed.
C17_Witness ==
  /\ resp.op = "health_trend"
  /\ resp.req.days = 3
  /\ Len(Get(resp.body)) = 3
  /\ resp.at > T0
  /\ QueryCustomers(customers, resp.req.segment) # {}

\* C18: _percentile(v, p) is 0 for an empty list, the element of a
\* one-element list, v[k] when k = (n-1)*p is an integer and otherwise the
\* linear interpolation between v[floor(k)] and v[ceil(k)]; for
\* [10,20,30,40] p25 is 17.5 and p75 is 32.5.
C18_Percentile ==
  resp.op = "_percentile" =>
    LET v == resp.req.sorted_vals
        n == Len(v)
        k == Rat((n - 1) * resp.req.p.n, resp.req.p.d)
        lo == k.n \div k.d
        frac == Rat(k.n % k.d, k.d)
        r == Get(resp.body)
    IN /\ n = 0 => r = R(0)
       /\ n = 1 => r = v[1]
       /\ (n > 1 /\ k.d = 1) => r = v[k.n + 1]
       /\ (n > 1 /\ k.d # 1) =>
            r = RAdd(RMul(v[lo + 1], RSub(R(1), frac)), RMul(v[lo + 2], frac))
       /\ (v = <<R(10), R(20), R(30), R(40)>> /\ resp.req.p = Rat(1, 4)) => r = Rat(35, 2)
       /\ (v = <<R(10), R(20), R(30), R(40)>> /\ resp.req.p = Rat(3, 4)) => r = Rat(65, 2)

\* The p25 of [10,20,30,40] was computed, between the first two values.
C18_Witness ==
  /\ resp.op = "_percentile"
  /\ resp.req.sorted_vals = <<R(10), R(20), R(30), R(40)>>
  /\ resp.req.p = Rat(1, 4)
  /\ Get(resp.body) = Rat(35, 2)

\* C19: in a summary every customer of the (filtered) population is counted
\* in exactly one bucket chosen by its total: at_risk below 60, watch from 60
\* to below 80, healthy from 80; the three counts add up to the total count.
C19_Buckets ==
  resp.op = "health_summary" =>
    LET ids == QueryCustomers(customers, resp.req)
        b == Get(resp.body)
    IN /\ b.total = Cardinality(ids)
       /\ b.at_risk = Cardinality({c \in ids : RLt(TotalAt(c, resp.at), R(60))})
       /\ b.watch = Cardinality({c \in ids : /\ RLe(R(60), TotalAt(c, resp.at))
                                             /\ RLt(TotalAt(c, resp.at), R(80))})
       /\ b.healthy = Cardinality({c \in ids : RLe(R(80), TotalAt(c, resp.at))})
       /\ b.healthy + b.watch + b.at_risk = b.total

\* A summary filtered by segment left a customer out and counted a customer
\* whose total is exactly 60 as watch.
C19_Witness ==
  /\ resp.op = "health_summary"
  /\ resp.req = Some("enterprise")
  /\ Len(customers) = 2
  /\ Get(resp.body).total = 1
  /\ Get(resp.body).watch = 1
  /\ \E c \in DOMAIN customers : TotalAt(c, resp.at) = R(60)

\* C20: the top list of a summary is ordered by total descending, the bottom
\* list by total ascending, and customers with equal totals by customer id.
C20_TieBreak ==
  resp.op = "health_summary" =>
    LET b == Get(resp.body)
    IN /\ \A i, j \in DOMAIN b.top5 :
            i < j =>
              \/ RLt(TotalAt(b.top5[j].id, resp.at), TotalAt(b.top5[i].id, resp.at))
              \/ /\ TotalAt(b.top5[j].id, resp.at) = TotalAt(b.top5[i].id, resp.at)
                 /\ b.top5[i].id < b.top5[j].id
       /\ \A i, j \in DOMAIN b.bottom5 :
            i < j =>
              \/ RLt(TotalAt(b.bottom5[i].id, resp.at), TotalAt(b.bottom5[j].id, resp.at))
              \/ /\ TotalAt(b.bottom5[j].id, resp.at) = TotalAt(b.bottom5[i].id, resp.at)
                 /\ b.bottom5[i].id < b.bottom5[j].id

\* The store with every cached Customer.health_score set to h.
WithCached(cs, h) == [i \in DOMAIN cs |-> [cs[i] EXCEPT !.health_score = h]]

\* C21: the scores served are computed from the event log at request time and
\* do not depend on the stored Customer.health_score: every row of a customer
\* list carries the rounded total of that customer's events, and a store that
\* differs only in the cached field gives the same list, breakdown, summary
\* and trend.
C21_CacheIndependent ==
  LET cs2 == WithCached(customers, R(50))
  IN /\ resp.op = "list_customers" =>
          /\ \A i \in DOMAIN Get(resp.body) :
               Get(resp.body)[i].health_score
                 = round(compute_health_breakdown(customers, events,
                                                  Get(resp.body)[i].id, resp.at).total, 2)
          /\ \E found \in StoreOrders(ListQuery(cs2, resp.req)) :
               Get(resp.body) = list_customers(cs2, events, found, resp.req, resp.at)
     /\ (resp.op \in {"get_customer_health", "compute_health_breakdown"} /\ resp.status = 200) =>
          Get(resp.body) = compute_health_breakdown(cs2, events, resp.cid, resp.at)
     /\ resp.op = "health_summary" =>
          \E rows \in StoreOrders(QueryCustomers(cs2, resp.req)) :
            Get(resp.body) = health_summary(cs2, events, rows, resp.at)
     /\ resp.op = "health_trend" =>
          \E rows \in StoreOrders(QueryCustomers(cs2, resp.req.segment)) :
            Get(resp.body) = health_trend(cs2, events, rows, resp.req.days, resp.at)

\* A customer list was served with a score that is not the stored one.
C21_Witness ==
  /\ resp.op = "list_customers"
  /\ \E i \in DOMAIN Get(resp.body) :
       /\ Get(resp.body)[i].health_score = R(80)
       /\ customers[Get(resp.body)[i].id].health_score = R(0)

\* C22: clamp is range-bounded and idempotent: its result lies in [0, 100],
\* clamping the result again changes nothing, and an argument that is already
\* in [0, 100] is returned as it is.
C22_Clamp ==
  resp.op = "clamp" =>
    LET x == resp.req
        r == Get(resp.body)
    IN /\ RLe(R(0), r) /\ RLe(r, R(100))
       /\ clamp(r) = r
       /\ (RLe(R(0), x) /\ RLe(x, R(100))) => r = x
       /\ RLt(x, R(0)) => r = R(0)
       /\ RLt(R(100), x) => r = R(100)

\* clamp was called below the range, above it and inside it.
C22_Witness ==
  /\ resp.op = "clamp"
  /\ resp.req \in {R(-10), R(150), Rat(85, 2)}
  /\ Get(resp.body) \in {R(0), R(100), Rat(85, 2)}

\* C23: once a customer list or a customer's breakdown has been served, the
\* stored Customer.health_score of every customer that was scored is the
\* total the request computed.
C23_Persisted ==
  /\ (resp.op = "get_customer_health" /\ resp.status = 200) =>
       customers[resp.cid].health_score = Get(resp.body).total
  /\ resp.op = "list_customers" =>
       \A c \in ListQuery(customers, resp.req) :
         customers[c].health_score = TotalAt(c, resp.at)

\* The rows of the customers that pass the segment, name, risk and score
\* range filters of a list request served at instant t.
PassingRows(params, t) ==
  LET row(c) == [id |-> c, name |-> customers[c].name, segment |-> customers[c].segment,
                 seats |-> customers[c].seats, health_score |-> round(TotalAt(c, t), 2)]
  IN {r \in {row(c) : c \in ListQuery(customers, params)} :
        /\ IsNone(params.risk) \/ risk_bucket(r.health_score) = Get(params.risk)
        /\ RLe(R(params.min_score), r.health_score)
        /\ RLe(r.health_score, R(params.max_score))}

\* Row a comes strictly before row b under the requested key and order.
KeyBefore(a, b, params) ==
  LET Lt(x, y) == IF params.sort = "name" THEN StrLt(lower(x.name), lower(y.name))
                  ELSE IF params.sort = "id" THEN x.id < y.id
                  ELSE RLt(x.health_score, y.health_score)
  IN IF params.order = "desc" THEN Lt(b, a) ELSE Lt(a, b)

\* The arrangements of the passing rows that are sorted by the requested key.
SortedLists24(params, t) ==
  LET S == PassingRows(params, t)
  IN {L \in [1..Cardinality(S) -> S] :
        /\ \A i, j \in DOMAIN L : i # j => L[i] # L[j]
        /\ \A i, j \in DOMAIN L : i < j => ~KeyBefore(L[j], L[i], params)}

\* Every page is a slice of a sorted arrangement of the passing rows.
C24_Slice ==
  resp.op = "list_customers" =>
    \E L \in SortedLists24(resp.req, resp.at) :
      Get(resp.body) = Slice(L, resp.req.offset, resp.req.limit)

\* C24: a page is the slice [offset, offset + limit) of the filtered rows
\* sorted by the requested key, and the page served next for the following
\* offset continues the same sorted list: the two pages are disjoint and
\* together are the slice [offset, offset + 2 * limit).
C24_Pages ==
  [][(resp'.op = "list_customers" /\ resp' # resp) =>
       /\ \E L \in SortedLists24(resp'.req, resp'.at) :
            Get(resp'.body) = Slice(L, resp'.req.offset, resp'.req.limit)
       /\ (/\ resp.op = "list_customers"
           /\ resp'.req = [resp.req EXCEPT !.offset = resp.req.offset + resp.req.limit]) =>
            \E L \in SortedLists24(resp.req, resp.at) :
              /\ Get(resp.body) = Slice(L, resp.req.offset, resp.req.limit)
              /\ Get(resp'.body) = Slice(L, resp'.req.offset, resp'.req.limit)]_vars

ReadOps ==
  {"compute_health_breakdown", "list_customers", "get_customer_health",
   "health_summary", "health_trend"}

\* C25: scoring and aggregation are read-only: a breakdown, a customer list,
\* a customer's health, a summary and a trend leave the event log as it was
\* and add or remove no customer.
C25_ReadOnly ==
  [][resp'.op \in ReadOps => (events' = events /\ customers' = customers)]_vars

\* A read of each kind was served from a store that had taken an event
\* through the endpoint.
C25_Witness ==
  /\ resp.op \in ReadOps
  /\ resp.status = 200
  /\ \E i \in DOMAIN events : events[i].type = "support_ticket_opened"

\* C26: a breakdown served while events of the same customer are committed
\* reflects one snapshot of the event log: its five factors are the factors
\* of some prefix of the log in commit order.
C26_Snapshot ==
  (resp.op = "get_customer_health" /\ resp.status = 200) =>
    \E k \in 0..Len(events) :
      Get(resp.body).factors
        = compute_health_breakdown(customers, SubSeq(events, 1, k), resp.cid, resp.at).factors

\* The factor an event kind feeds.
FactorOf(type) ==
  IF type = "login" THEN "login_frequency"
  ELSE IF type = "feature_use" THEN "feature_adoption"
  ELSE IF type = "support_ticket_opened" THEN "support_ticket_volume"
  ELSE IF type \in {"invoice_paid", "invoice_late"} THEN "invoice_timeliness"
  ELSE "api_usage_trend"

\* C27: each event kind feeds exactly one factor: when an event is appended,
\* the other four factors of its customer and every factor of every other
\* customer, computed at the same reference instant, are what they were.
C27_OneFactor ==
  [][Len(events') = Len(events) + 1 =>
       LET e == events'[Len(events')]
       IN \A d \in DOMAIN customers : \A f \in FactorNames :
            (d # e.customer_id \/ f # FactorOf(e.type)) =>
              compute_health_breakdown(customers, events', d, now').factors[f]
                = compute_health_breakdown(customers, events, d, now').factors[f]]_vars

\* Events of two kinds were recorded, one for each customer, and the factor
\* of the first customer's event moved away from its no-data value.
C27_Witness ==
  /\ Len(events) = 2
  /\ events[1].customer_id = 1 /\ events[2].customer_id = 2
  /\ events[1].type = "support_ticket_opened" /\ events[2].type = "api_call"
  /\ RLt(compute_health_breakdown(customers, events, 1, now).factors.support_ticket_volume, R(100))
  /\ compute_health_breakdown(customers, events, 2, now).factors.support_ticket_volume = R(100)

\* C28: the risk filter of the customer list agrees with the buckets of the
\* summary: for the same events and instant, a customer is on the list for
\* risk = b exactly when the summary counts that customer in bucket b.
C28_BucketsAgree ==
  (/\ resp.op = "list_customers"
   /\ ~IsNone(resp.req.risk)
   /\ resp.req.offset = 0
   /\ resp.req.limit >= Len(customers)) =>
    \A c \in ListQuery(customers, resp.req) :
      (\E i \in DOMAIN Get(resp.body) : Get(resp.body)[i].id = c)
        <=> health_summary(customers, events, <<c>>, resp.at)[Get(resp.req.risk)] = 1

\* C29: over a population without customers (an empty store, or a segment
\* filter that selects nobody) the summary reports total, healthy, watch and
\* at_risk 0, avg_score 0, every factor average 0 and empty top and bottom
\* lists, and the trend has `days` points whose avg, p25 and p75 are 0.
C29_Empty ==
  /\ (resp.op = "health_summary" /\ QueryCustomers(customers, resp.req) = {}) =>
       LET b == Get(resp.body)
       IN /\ b.total = 0 /\ b.healthy = 0 /\ b.watch = 0 /\ b.at_risk = 0
          /\ b.avg_score = R(0)
          /\ DOMAIN b.avg_factors = FactorNames
          /\ \A k \in FactorNames : b.avg_factors[k] = R(0)
          /\ b.top5 = <<>> /\ b.bottom5 = <<>>
  /\ (resp.op = "health_trend" /\ QueryCustomers(customers, resp.req.segment) = {}) =>
       LET pts == Get(resp.body)
       IN /\ Len(pts) = resp.req.days
          /\ \A i \in DOMAIN pts :
               pts[i].avg = R(0) /\ pts[i].p25 = R(0) /\ pts[i].p75 = R(0)

\* A three-day trend was served for a segment that none of the two customers
\* of the store belongs to.
C29_Witness ==
  /\ resp.op = "health_trend"
  /\ resp.req.days = 3
  /\ Len(customers) = 2
  /\ QueryCustomers(customers, resp.req.segment) = {}
  /\ Len(Get(resp.body)) = 3

====
